---- MODULE Spec2Model ----
(***************************************************************************)
(* Eswatini-Events backend: ticket purchase, transfer, validation, refund  *)
(* and force-refund handlers and the payment webhook, over the document    *)
(* store.                                                                  *)
(*                                                                         *)
(* The store is the only shared state.  A handler that awaits the store    *)
(* between a read and a write is modelled by one action per await, so      *)
(* that other requests interleave exactly where the code can be suspended. *)
(* A handler that runs inside one store transaction and is only looked at  *)
(* from outside is one action.                                             *)
(***************************************************************************)
EXTENDS Integers, Naturals, Sequences, FiniteSets, TLC

VARIABLES
    tickets,      \* Ticket collection: ticket id -> document
    events,       \* Event collection: event id -> tier name -> sold counter
    payments,     \* Payment collection: sequence of payment records
    now,          \* the wall clock read by new Date()
    refundReq,    \* refund requests: slot -> position and locals of processRefund
    validateReq,  \* validate requests: slot -> position and locals of POST /validate
    lastHook,     \* the last webhook delivery: what was sent and what was answered
    log,          \* responses sent, in the order they were sent
    users,        \* User collection: user id -> document (role)
    issued,       \* access tokens signed by POST /login, by their payload
    hits,         \* the rate limiters' stores: limiter -> client -> requests counted
    traffic,      \* per client and path: requests sent in this window, last answer
    activeRequests, \* tracing.js: the module-level Set of request ids
    inFlight      \* requests that entered the tracing middleware: request -> id,
                  \* logger, listeners, completion logs and how far the response is

\* The state of the request pipeline in front of the handlers.
pipeline == <<users, issued, hits, traffic, activeRequests, inFlight>>

vars == <<tickets, events, payments, now, refundReq, validateReq, lastHook, log,
          users, issued, hits, traffic, activeRequests, inFlight>>

----------------------------------------------------------------------------
(* Bounds of the model *)

MaxReq == 3        \* refund / validate requests per behaviour
MaxClock == 1      \* the clock runs 0..MaxClock
MaxIssued == 3     \* tickets created by purchases per behaviour

----------------------------------------------------------------------------
(* Identities *)

Users == {"u1", "u2"}
SuperAdmins == {"u2"}                   \* users stored with role 'super_admin'
IssuedIds == <<"p1", "p2", "p3", "p4", "p5">>        \* _id of the tickets purchases create
\* the Ticket collection in storage order
TicketOrder == <<"t1", "t2", "t3">> \o IssuedIds
MissingTicket == "t9"
EventIds == {"e1", "e2"}
MissingEvent == "e9"
InactiveEvents == {"e2"}                \* events stored with isActive: false
\* ticketTypes[].price of the stored events: e1 is priced as the purchase
\* route's table, e2 is not
EventPrice(ev, tier) ==
    IF ev = "e2" THEN (IF tier = "VIP" THEN 600 ELSE IF tier = "Early Bird" THEN 400 ELSE 250)
    ELSE (IF tier = "VIP" THEN 500 ELSE IF tier = "Early Bird" THEN 300 ELSE 200)
\* ticketTypes[].capacity of every stored event
Capacity(ev, tier) == IF tier = "General" THEN 1 ELSE 2
Tiers == {"VIP", "Early Bird", "General"}
Keys == {"k1", "k2"}
NoKey == "nokey"
NoTxn == "notxn"
Slots == 1..MaxReq

TierPrice(tier) == IF tier = "VIP" THEN 500 ELSE IF tier = "Early Bird" THEN 300 ELSE 200

\* The scan token `ESWATICKET:${eventId}:${userId}:${Date.now()}`
QrData(ev, owner, time) == <<"ESWATICKET", ev, owner, time>>

\* A ticket document as createSingleTicket stores it at the given time.
TicketAt(ev, owner, tier, time) ==
    [ event |-> ev, owner |-> owner, tier |-> tier, price |-> TierPrice(tier),
      qrData |-> QrData(ev, owner, time),
      transferHistory |-> <<[from |-> owner, to |-> owner, date |-> time]>>,
      isUsed |-> FALSE, status |-> "ACTIVE",
      validationHistory |-> <<>>, refundHistory |-> <<>>,
      updatedAt |-> time,
      paymentStatus |-> "none", transactionId |-> NoTxn, paymentMethod |-> "none" ]

\* A ticket created at time 0.
NewTicket(ev, owner, tier) == TicketAt(ev, owner, tier, 0)

\* No document loaded yet.
NoDoc == [loaded |-> FALSE]

----------------------------------------------------------------------------
(* Responses *)

Reply(code, body) == [code |-> code, body |-> body]
ErrorReply(code, message) == Reply(code, [message |-> message])
NoResponse == Reply(0, [message |-> "none"])     \* nothing sent yet

Respond(slot, op, tid, key, user, res) ==
    log' = Append(log, [slot |-> slot, op |-> op, tid |-> tid, key |-> key,
                        user |-> user, res |-> res])

\* The store refuses a transaction's write to a document that was written
\* after the transaction took its snapshot: a committed write to the tickets
\* in tids marks the snapshot of every open validate transaction that read one.
MarkConflicts(reqs, tids) ==
    [s \in DOMAIN reqs |->
        IF reqs[s].pc = "save" /\ reqs[s].tid \in tids
        THEN [reqs[s] EXCEPT !.snapshotStale = TRUE]
        ELSE reqs[s]]

----------------------------------------------------------------------------
(* Refund: controllers/refundController.processRefund and                  *)
(* TicketSchema.methods.processRefund                                      *)

\* refundHistory.find((r) => r.idempotencyKey === idempotencyKey): the first match
RECURSIVE FindRefundFrom(_, _, _)
FindRefundFrom(hist, key, i) ==
    IF i > Len(hist) THEN 0
    ELSE IF hist[i].idempotencyKey = key THEN i
    ELSE FindRefundFrom(hist, key, i + 1)

FindRefund(hist, key) == FindRefundFrom(hist, key, 1)

ExistingRefundNever(db, tid, key) == FALSE

\* Ticket.findOne({_id: ticketId, 'refundHistory.idempotencyKey': idempotencyKey}) found one
ExistingRefund(db, tid, key) ==
    /\ tid \in DOMAIN db
    /\ FindRefund(db[tid].refundHistory, key) # 0

DeduplicatedBody(refund) ==
    [ status |-> "deduplicated", refundStatus |-> refund.status,
      originalRequestAt |-> refund.processedAt ]

CompletedBody(ticket, newRefund) ==
    [ status |-> "completed", amount |-> ticket.price, currency |-> "SZL",
      refundId |-> newRefund.id, processedAt |-> newRefund.processedAt ]

RefundGuardIgnoresUse(doc) ==
    IF doc.status = "REFUNDED" THEN "Ticket already refunded" ELSE "ok"

\* The two guards of the model method; "ok" when neither throws.
RefundGuard(doc) ==
    IF doc.isUsed THEN "Cannot refund used ticket"
    ELSE IF doc.status = "REFUNDED" THEN "Ticket already refunded"
    ELSE "ok"

RefundEntry(doc, processedBy, key, time, id) ==
    [ id |-> id, idempotencyKey |-> key, processedAt |-> time,
      processedBy |-> processedBy, amount |-> doc.price, status |-> "COMPLETED" ]

ApplyRefundTwice(doc, processedBy, key, time, id) ==
    [doc EXCEPT !.status = "REFUNDED", !.updatedAt = time,
                !.refundHistory = Append(Append(@, RefundEntry(doc, processedBy, key, time, id)),
                                         RefundEntry(doc, processedBy, key, time, id))]

\* this.status = 'REFUNDED'; this.refundHistory.push({...}) on the in-memory
\* document, and the updatedAt stamp that the call of save() puts on it
ApplyRefund(doc, processedBy, key, time, id) ==
    [doc EXCEPT !.status = "REFUNDED", !.updatedAt = time,
                !.refundHistory = Append(@, RefundEntry(doc, processedBy, key, time, id))]

\* The entries the in-memory document holds beyond the ones it was loaded with.
RECURSIVE Pushed(_, _)
Pushed(local, loadedLen) ==
    IF Len(local) <= loadedLen THEN <<>>
    ELSE Append(Pushed(SubSeq(local, 1, Len(local) - 1), loadedLen), local[Len(local)])

\* save() of a document whose status was set and whose refundHistory was pushed to:
\* the store applies $set status and $push of the new entries to the stored
\* document, whatever that document holds by now, with $set updatedAt.
SaveRefund(stored, local, loadedLen) ==
    [stored EXCEPT !.status = local.status,
                   !.refundHistory = @ \o Pushed(local.refundHistory, loadedLen),
                   !.updatedAt = local.updatedAt]

IdleRefund == [pc |-> "idle", tid |-> MissingTicket, key |-> NoKey, user |-> "u1",
               loadedLen |-> 0, doc |-> NoDoc]

\* Refund entry ids are ObjectIds made by the process: distinct per push.
FreshRefundId(s) == s

RefundInFlight == {s \in Slots : refundReq[s].pc \in {"check", "load", "save"}}

\* middleware/idempotency: req.headers['idempotency-key'] || uuidv4()
GeneratedKeys == <<"uuid-1", "uuid-2", "uuid-3", "uuid-4">>
IdempotencyKeyOf(header, s) == IF header = NoKey THEN GeneratedKeys[s] ELSE header

\* A request arrives with ticket id, idempotency key and authenticated user.
RefundReceive(s, tid, key, user) ==
    /\ refundReq[s].pc = "idle"
    /\ IF s = 1 THEN TRUE ELSE refundReq[s - 1].pc # "idle"
    /\ refundReq' = [refundReq EXCEPT ![s] =
            [@ EXCEPT !.pc = "check", !.tid = tid, !.key = key, !.user = user]]
    /\ UNCHANGED <<tickets, events, payments, now, validateReq, lastHook, log>>
    /\ UNCHANGED pipeline

\* POST /:ticketId/refund up to the controller: auth, validate and the
\* idempotency middleware, which puts the header's key or a generated one on
\* the request.
RefundRequest(s, tid, header, user) ==
    RefundReceive(s, tid, IdempotencyKeyOf(header, s), user)

\* 1. idempotency check
RefundCheck(s) ==
    LET r == refundReq[s] IN
    /\ r.pc = "check"
    /\ IF ExistingRefund(tickets, r.tid, r.key)
       THEN LET hist == tickets[r.tid].refundHistory
                refund == hist[FindRefund(hist, r.key)] IN
            /\ refundReq' = [refundReq EXCEPT ![s].pc = "done"]
            /\ Respond(s, "refund", r.tid, r.key, r.user, Reply(200, DeduplicatedBody(refund)))
       ELSE /\ refundReq' = [refundReq EXCEPT ![s].pc = "load"]
            /\ UNCHANGED log
    /\ UNCHANGED <<tickets, events, payments, now, validateReq, lastHook>>
    /\ UNCHANGED pipeline

\* 2. findById, ownership, and the synchronous part of ticket.processRefund up to save()
RefundLoad(s) ==
    LET r == refundReq[s] IN
    /\ r.pc = "load"
    /\ IF r.tid \notin DOMAIN tickets
       THEN /\ refundReq' = [refundReq EXCEPT ![s].pc = "done"]
            /\ Respond(s, "refund", r.tid, r.key, r.user, ErrorReply(404, "Ticket not found"))
       ELSE LET doc == tickets[r.tid] IN
            IF doc.owner # r.user
            THEN /\ refundReq' = [refundReq EXCEPT ![s].pc = "done"]
                 /\ Respond(s, "refund", r.tid, r.key, r.user,
                            ErrorReply(403, "You do not own this ticket"))
            ELSE IF RefundGuard(doc) # "ok"
            THEN /\ refundReq' = [refundReq EXCEPT ![s].pc = "done"]
                 /\ Respond(s, "refund", r.tid, r.key, r.user, ErrorReply(500, RefundGuard(doc)))
            ELSE /\ refundReq' = [refundReq EXCEPT ![s] =
                        [@ EXCEPT !.pc = "save",
                                  !.loadedLen = Len(doc.refundHistory),
                                  !.doc = ApplyRefund(doc, r.user, r.key, now, FreshRefundId(s))]]
                 /\ UNCHANGED log
    /\ UNCHANGED <<tickets, events, payments, now, validateReq, lastHook>>
    /\ UNCHANGED pipeline

\* 3./4. the save() reaches the store; the new refund record is read back from
\* the in-memory document and the completed response is sent
RefundSave(s) ==
    LET r == refundReq[s]
        newRefund == r.doc.refundHistory[FindRefund(r.doc.refundHistory, r.key)] IN
    /\ r.pc = "save"
    /\ tickets' = [tickets EXCEPT ![r.tid] = SaveRefund(@, r.doc, r.loadedLen)]
    /\ refundReq' = [refundReq EXCEPT ![s].pc = "done"]
    /\ validateReq' = MarkConflicts(validateReq, {r.tid})
    /\ Respond(s, "refund", r.tid, r.key, r.user, Reply(200, CompletedBody(r.doc, newRefund)))
    /\ UNCHANGED <<events, payments, now, lastHook>>
    /\ UNCHANGED pipeline

\* The clock advances.
Tick ==
    /\ now < MaxClock
    /\ now' = now + 1
    /\ UNCHANGED <<tickets, events, payments, refundReq, validateReq, lastHook, log>>
    /\ UNCHANGED pipeline

----------------------------------------------------------------------------
(* Validate: router.post('/validate') in routes/ticketRoutes, run inside a  *)
(* store transaction                                                       *)

Locations == {"Gate A"}

\* Ticket.findOne({qrData: qrPayload}) on the transaction's snapshot: the id
\* of the ticket that carries the token, or MissingTicket
FindByQr(db, token) ==
    IF \E t \in DOMAIN db : db[t].qrData = token
    THEN CHOOSE t \in DOMAIN db : db[t].qrData = token
    ELSE MissingTicket

AlreadyUsedReply(doc) ==
    Reply(400, [message |-> "Ticket already used", firstUsed |-> doc.updatedAt])

ValidReply(doc, time) ==
    Reply(200, [valid |-> TRUE, event |-> doc.event, attendee |-> doc.owner,
                validatedAt |-> time])

\* ticket.isUsed = true; ticket.validationHistory.push({...}) on the in-memory
\* document, and the updatedAt stamp that the call of save() puts on it
ApplyValidate(doc, validator, location, time) ==
    [doc EXCEPT !.isUsed = TRUE, !.updatedAt = time,
                !.validationHistory = Append(@, [timestamp |-> time,
                                                 validatedBy |-> validator,
                                                 location |-> location])]

\* ticket.save({session}) and commitTransaction(): $set isUsed, $push of the new
\* entry, $set updatedAt
SaveValidate(stored, local) ==
    [stored EXCEPT !.isUsed = local.isUsed,
                   !.validationHistory = @ \o <<local.validationHistory[Len(local.validationHistory)]>>,
                   !.updatedAt = local.updatedAt]

WriteConflict(r) == r.snapshotStale

IdleValidate == [pc |-> "idle", token |-> QrData("e1", "u1", 0), user |-> "u1",
                 location |-> "Gate A", tid |-> MissingTicket, snapshotStale |-> FALSE,
                 doc |-> NoDoc]

\* A staff member scans a token.
ValidateReceive(s, token, user, location) ==
    /\ validateReq[s].pc = "idle"
    /\ IF s = 1 THEN TRUE ELSE validateReq[s - 1].pc # "idle"
    /\ validateReq' = [validateReq EXCEPT ![s] =
            [@ EXCEPT !.pc = "find", !.token = token, !.user = user, !.location = location]]
    /\ UNCHANGED <<tickets, events, payments, now, refundReq, lastHook, log>>
    /\ UNCHANGED pipeline

\* findOne in the session, the not-found and already-used rejections, and the
\* changes to the in-memory document up to save()
ValidateFind(s) ==
    LET r == validateReq[s]
        tid == FindByQr(tickets, r.token) IN
    /\ r.pc = "find"
    /\ IF tid = MissingTicket
       THEN /\ validateReq' = [validateReq EXCEPT ![s].pc = "done"]
            /\ Respond(s, "validate", tid, NoKey, r.user, ErrorReply(404, "Ticket not found"))
       ELSE IF tickets[tid].isUsed
       THEN /\ validateReq' = [validateReq EXCEPT ![s] = [@ EXCEPT !.pc = "done", !.tid = tid]]
            /\ Respond(s, "validate", tid, NoKey, r.user, AlreadyUsedReply(tickets[tid]))
       ELSE /\ validateReq' = [validateReq EXCEPT ![s] =
                   [@ EXCEPT !.pc = "save", !.tid = tid,
                             !.snapshotStale = FALSE,
                             !.doc = ApplyValidate(tickets[tid], r.user, r.location, now)]]
            /\ UNCHANGED log
    /\ UNCHANGED <<tickets, events, payments, now, refundReq, lastHook>>
    /\ UNCHANGED pipeline

\* save in the session and commit; a write conflict throws, the catch block
\* aborts the transaction and hands the error to the error handler
ValidateSave(s) ==
    LET r == validateReq[s] IN
    /\ r.pc = "save"
    /\ IF WriteConflict(r)
       THEN /\ UNCHANGED tickets
            /\ validateReq' = [validateReq EXCEPT ![s].pc = "done"]
            /\ Respond(s, "validate", r.tid, NoKey, r.user, ErrorReply(500, "WriteConflict"))
       ELSE /\ tickets' = [tickets EXCEPT ![r.tid] = SaveValidate(@, r.doc)]
            /\ validateReq' = MarkConflicts([validateReq EXCEPT ![s].pc = "done"], {r.tid})
            /\ Respond(s, "validate", r.tid, NoKey, r.user, ValidReply(r.doc, now))
    /\ UNCHANGED <<events, payments, now, refundReq, lastHook>>
    /\ UNCHANGED pipeline

----------------------------------------------------------------------------
(* Payment webhook: controllers/paymentWebhooks.handlePaymentWebhook       *)

Secret == "whsec"                     \* process.env.PAYMENT_WEBHOOK_SECRET
NoSig == [absent |-> TRUE]            \* no x-payment-signature header

\* createHmac('sha256', secret).update(JSON.stringify(body)).digest('hex'): a
\* value fixed by the secret and the body that differs when either differs
Hmac(secret, body) == [hmac |-> "sha256", secret |-> secret, body |-> body]

SignaturePresent(sig, body) == sig # NoSig

\* the negation of (!signature || signature !== expectedSignature)
SignatureValid(sig, body) == sig # NoSig /\ sig = Hmac(Secret, body)

MissingFieldsOld(body) ==
    body.transactionId = "" \/ body.status = "" \/ Len(body.ticketIds) = 0

\* !transactionId || !status || !ticketIds?.length || !amount || !currency || !paymentMethod
MissingFields(body) ==
    \/ body.transactionId = "" \/ body.status = "" \/ Len(body.ticketIds) = 0
    \/ body.amount = 0 \/ body.currency = "" \/ body.paymentMethod = ""

Range(seq) == {seq[i] : i \in 1..Len(seq)}

\* Ticket.find({_id: {$in: ticketIds}}): the stored tickets named in the list,
\* once each, in storage order
RECURSIVE FoundFrom(_, _, _)
FoundFrom(db, ids, i) ==
    IF i > Len(TicketOrder) THEN <<>>
    ELSE IF TicketOrder[i] \in DOMAIN db /\ TicketOrder[i] \in Range(ids)
         THEN <<TicketOrder[i]>> \o FoundFrom(db, ids, i + 1)
         ELSE FoundFrom(db, ids, i + 1)

FoundTickets(db, ids) == FoundFrom(db, ids, 1)

AlreadyProcessedNever(db, found) == FALSE

AlreadyProcessedConfirmedOnly(db, found) ==
    \E i \in 1..Len(found) : db[found[i]].paymentStatus = "confirmed"

\* tickets.some((t) => t.transactionId)
AlreadyProcessed(db, found) ==
    \E i \in 1..Len(found) : db[found[i]].transactionId # NoTxn

\* tickets.reduce((sum, ticket) => sum + ticket.price, 0)
RECURSIVE ExpectedAmount(_, _)
ExpectedAmount(db, found) ==
    IF Len(found) = 0 THEN 0
    ELSE db[found[1]].price + ExpectedAmount(db, Tail(found))

\* Ticket.updateOne({_id}, {$set: {paymentStatus: 'confirmed', transactionId,
\* paymentMethod, updatedAt}}) for every found ticket
ConfirmTickets(db, found, body, time) ==
    [t \in DOMAIN db |->
        IF t \in Range(found)
        THEN [db[t] EXCEPT !.paymentStatus = "confirmed",
                           !.transactionId = body.transactionId,
                           !.paymentMethod = body.paymentMethod,
                           !.updatedAt = time]
        ELSE db[t]]

\* Event.updateOne({_id: tickets[0].event}, {$inc: {'ticketTypes.$[elem].sold': 1}},
\* {arrayFilters: [{'elem.name': {$in: tickets.map((t) => t.tier)}}]})
IncrementSold(ev, db, found) ==
    LET eventId == db[found[1]].event
        names == {db[found[i]].tier : i \in 1..Len(found)} IN
    [ev EXCEPT ![eventId] =
        [tier \in Tiers |-> IF tier \in names THEN @[tier] + 1 ELSE @[tier]]]

\* new Payment({...}) as it is saved
PaymentRecord(body) ==
    [ transactionId |-> body.transactionId, amount |-> body.amount,
      currency |-> body.currency, paymentMethod |-> body.paymentMethod,
      tickets |-> body.ticketIds, status |-> "completed" ]

\* Ticket.updateMany({_id: {$in: ticketIds}}, {$set: {paymentStatus: 'failed',
\* transactionId, updatedAt}})
FailTickets(db, ids, body, time) ==
    [t \in DOMAIN db |->
        IF t \in Range(ids)
        THEN [db[t] EXCEPT !.paymentStatus = "failed",
                           !.transactionId = body.transactionId,
                           !.updatedAt = time]
        ELSE db[t]]

\* 6. the acknowledgement
Ack(body, time) ==
    Reply(200, [acknowledged |-> TRUE, timestamp |-> time,
                transactionId |-> body.transactionId,
                ticketCount |-> Len(body.ticketIds)])

\* The calls a handler makes on its session, in order.  commitFailed is a
\* commitTransaction() that throws.
NoSession == <<>>
Committed == <<"startTransaction", "commitTransaction", "endSession">>
Aborted == <<"startTransaction", "abortTransaction", "endSession">>
CommitThrew == <<"startTransaction", "commitFailed", "abortTransaction", "endSession">>
Unresolved == <<"startTransaction", "endSession">>

\* The session calls of a branch that writes, given the call that throws.
WriteSession(failAt) ==
    IF failAt = "none" THEN Committed
    ELSE IF failAt = "commit" THEN CommitThrew
    ELSE Aborted

IsFailedStatusLoose(status) == status # "success"

\* else if (status === 'failed')
IsFailedStatus(status) == status = "failed"

\* Where a store call of the handler may throw.  savePayment is also where
\* `new Payment` throws when no Payment model is bound in the controller
\* (the file requires Ticket, Event and User only).
FailPoints == {"none", "updateTickets", "updateEvent", "savePayment", "commit"}

EventUpdateOutsideSession == FALSE

\* Which writes carry the session of the handler's transaction.
TicketUpdateInSession == TRUE      \* .session(session) on Ticket.updateOne / updateMany
EventUpdateInSession == TRUE       \* {arrayFilters, session} on Event.updateOne
PaymentSaveInSession == TRUE       \* paymentRecord.save({session})

InSession(write) ==
    IF write = "updateTickets" THEN TicketUpdateInSession
    ELSE IF write = "updateEvent" THEN EventUpdateInSession
    ELSE PaymentSaveInSession

\* The writes the success branch has issued when the call at failAt throws.
\* The ticket updates and the event update are started together (Promise.all).
IssuedWrites(failAt) ==
    IF failAt = "updateTickets" THEN {"updateEvent"}
    ELSE IF failAt = "updateEvent" THEN {"updateTickets"}
    ELSE IF failAt = "savePayment" THEN {"updateTickets", "updateEvent"}
    ELSE {"updateTickets", "updateEvent", "savePayment"}

\* The whole handler: the response, the collections it leaves behind and the
\* store operations it issued.  A write in the session takes effect only when
\* the transaction commits; the catch block aborts.
WebhookOutcome(db, ev, pay, time, key, sig, body, failAt) ==
    LET Rejected(res, ops) ==
            [res |-> res, tickets |-> db, events |-> ev, payments |-> pay, ops |-> ops,
             session |-> Aborted]
        found == FoundTickets(db, body.ticketIds)
        committed == failAt = "none"
        Applies(write) == write \in IssuedWrites(failAt) /\ (committed \/ ~InSession(write))
    IN
    IF key = NoKey
    THEN Rejected(ErrorReply(400, "Idempotency key required"), <<>>)
    ELSE IF ~SignatureValid(sig, body)
    THEN Rejected(ErrorReply(401, "Invalid webhook signature"), <<>>)
    ELSE IF MissingFields(body)
    THEN Rejected(ErrorReply(400, "Missing required fields in webhook payload"), <<>>)
    ELSE IF body.status = "success"
    THEN IF Len(found) # Len(body.ticketIds)
         THEN Rejected(ErrorReply(404, "Some tickets not found"), <<"find">>)
         ELSE IF AlreadyProcessed(db, found)
         THEN Rejected(ErrorReply(409, "Some tickets already processed"), <<"find">>)
         ELSE IF body.amount # ExpectedAmount(db, found)
         THEN Rejected(ErrorReply(400, "Payment amount mismatch"), <<"find">>)
         ELSE [ res |-> IF committed THEN Ack(body, time) ELSE ErrorReply(500, failAt),
                tickets |-> IF Applies("updateTickets")
                            THEN ConfirmTickets(db, found, body, time) ELSE db,
                events |-> IF Applies("updateEvent") THEN IncrementSold(ev, db, found) ELSE ev,
                payments |-> IF Applies("savePayment")
                             THEN Append(pay, PaymentRecord(body)) ELSE pay,
                ops |-> <<"find", "write">>, session |-> WriteSession(failAt) ]
    ELSE IF IsFailedStatus(body.status)
    THEN IF failAt \in {"updateTickets", "commit"}
         THEN [ res |-> ErrorReply(500, failAt),
                tickets |-> IF failAt = "commit" /\ ~TicketUpdateInSession
                            THEN FailTickets(db, body.ticketIds, body, time) ELSE db,
                events |-> ev, payments |-> pay, ops |-> <<"write">>,
                session |-> WriteSession(failAt) ]
         ELSE [ res |-> Ack(body, time),
                tickets |-> FailTickets(db, body.ticketIds, body, time),
                events |-> ev, payments |-> pay, ops |-> <<"write">>,
                session |-> Committed ]
    ELSE [ res |-> Ack(body, time), tickets |-> db, events |-> ev, payments |-> pay,
           ops |-> <<>>, session |-> Unresolved ]

\* One delivery, handled from the first line to the response.  A store call
\* can throw only in a delivery that gets as far as the writes.
WebhookDeliver(key, sig, body, failAt) ==
    LET out == WebhookOutcome(tickets, events, payments, now, key, sig, body, failAt) IN
    /\ failAt # "none" =>
          "write" \in Range(WebhookOutcome(tickets, events, payments, now,
                                           key, sig, body, "none").ops)
    /\ tickets' = out.tickets
    /\ events' = out.events
    /\ payments' = out.payments
    /\ lastHook' = [seq |-> (lastHook.seq + 1) % 2, key |-> key, sig |-> sig,
                    body |-> body, res |-> out.res, ops |-> out.ops,
                    session |-> out.session]
    /\ validateReq' = MarkConflicts(validateReq,
                           {t \in DOMAIN tickets : out.tickets[t] # tickets[t]})
    /\ UNCHANGED <<now, refundReq, log>>
    /\ UNCHANGED pipeline

----------------------------------------------------------------------------
(* Purchase: POST /purchase, POST /batch-purchase and createSingleTicket   *)

\* The _id the store gives the next created ticket.
NextTicketId(db) == IssuedIds[Cardinality(DOMAIN db \cap Range(IssuedIds)) + 1]

DuplicateQrNever(db, qr) == FALSE

\* The unique index on qrData refuses a second document with the same token.
DuplicateQr(db, qr) == \E t \in DOMAIN db : db[t].qrData = qr

\* createSingleTicket: the collection with the new ticket in it.
InsertTicket(db, ev, user, tier, time) ==
    LET id == NextTicketId(db) IN
    [t \in DOMAIN db \cup {id} |->
        IF t = id THEN TicketAt(ev, user, tier, time) ELSE db[t]]

\* POST /purchase.  A quantity above 1 is handed on with next('route'); no
\* later route matches POST /purchase, so the request ends as 404.
PurchaseOutcome(db, time, user, ev, tier, quantity) ==
    IF quantity > 1
    THEN [res |-> ErrorReply(404, "Not Found"), tickets |-> db]
    ELSE IF ev \notin EventIds
    THEN [res |-> ErrorReply(404, "Event not found"), tickets |-> db]
    ELSE IF DuplicateQr(db, QrData(ev, user, time))
    THEN [res |-> ErrorReply(500, "E11000 duplicate key"), tickets |-> db]
    ELSE [res |-> Reply(201, [ticket |-> NextTicketId(db)]),
          tickets |-> InsertTicket(db, ev, user, tier, time)]

\* The tiers of a batch, one per ticket, in the order of the two loops.
RECURSIVE Expand(_)
Expand(items) ==
    IF Len(items) = 0 THEN <<>>
    ELSE [i \in 1..items[1].quantity |-> items[1].tier] \o Expand(Tail(items))

BatchOutsideSession == FALSE

\* createSingleTicket(..., session): the saves of the batch carry the session.
BatchInSession == TRUE

\* The loops of POST /batch-purchase from the i-th ticket on: the collection
\* as the transaction sees it and whether every save went through.  The save
\* at position failAt throws, as does a save that repeats a scan token.
RECURSIVE InsertAll(_, _, _, _, _, _, _)
InsertAll(db, ev, user, tiers, times, failAt, i) ==
    IF i > Len(tiers) THEN [tickets |-> db, ok |-> TRUE]
    ELSE IF i = failAt \/ DuplicateQr(db, QrData(ev, user, times[i]))
    THEN [tickets |-> db, ok |-> FALSE]
    ELSE InsertAll(InsertTicket(db, ev, user, tiers[i], times[i]),
                   ev, user, tiers, times, failAt, i + 1)

\* POST /batch-purchase, from startTransaction to the response.
BatchOutcome(db, user, ev, items, times, failAt) ==
    LET tiers == Expand(items)
        run == InsertAll(db, ev, user, tiers, times, failAt, 1)
    IN
    IF ev \notin EventIds
    THEN [res |-> ErrorReply(404, "Event not found"), tickets |-> db, session |-> Aborted]
    ELSE IF run.ok
    THEN [res |-> Reply(201, [success |-> TRUE, count |-> Len(tiers),
                              tickets |-> DOMAIN run.tickets \ DOMAIN db]),
          tickets |-> run.tickets, session |-> Committed]
    ELSE [res |-> ErrorReply(500, "save failed"),
          tickets |-> IF BatchInSession THEN db ELSE run.tickets, session |-> Aborted]

IssuedCount == Cardinality(DOMAIN tickets \cap Range(IssuedIds))

\* key is req.idempotencyKey as the middleware set it; the route does not read it.
Purchase(key, user, ev, tier, quantity) ==
    LET out == PurchaseOutcome(tickets, now, user, ev, tier, quantity) IN
    /\ Len(log) < MaxReq
    /\ IssuedCount + 1 <= MaxIssued
    /\ tickets' = out.tickets
    /\ log' = Append(log, [op |-> "purchase", key |-> key, user |-> user, event |-> ev,
                           items |-> <<[tier |-> tier, quantity |-> quantity]>>,
                           res |-> out.res])
    /\ UNCHANGED <<events, payments, now, refundReq, validateReq, lastHook>>
    /\ UNCHANGED pipeline

Nondecreasing(times) == \A i, j \in DOMAIN times : i <= j => times[i] <= times[j]

\* times[i] is the clock when the i-th ticket of the batch is created.
BatchPurchase(user, ev, items, failAt) ==
    /\ Len(log) < MaxReq
    /\ IssuedCount + Len(Expand(items)) <= MaxIssued
    /\ failAt <= Len(Expand(items))
    /\ \E times \in [1..Len(Expand(items)) -> now..MaxClock] :
         LET out == BatchOutcome(tickets, user, ev, items, times, failAt) IN
         /\ Nondecreasing(times)
         /\ tickets' = out.tickets
         /\ now' = times[Len(times)]
         /\ log' = Append(log, [op |-> "batch", user |-> user, event |-> ev,
                                items |-> items, res |-> out.res,
                                session |-> out.session])
    /\ UNCHANGED <<events, payments, refundReq, validateReq, lastHook>>
    /\ UNCHANGED pipeline

----------------------------------------------------------------------------
(* Transfer: router.post('/transfer/:ticketId'), and the admin force-refund *)

\* Registered users are looked up by e-mail; a user's e-mail stands for the user.
UnknownEmail == "nobody"

\* How the free identifier `req` in validateTicketOwnership resolves: the
\* helper takes (ticket, userId, logger) and no `req` is declared in the file,
\* so the read throws a ReferenceError ("unbound"); were a request object
\* bound to the name, its isGodMode flag is either unset ("plain") or set ("god").
ReqScopes == {"unbound", "plain", "god"}

\* Another ticket already carries the token (unique index on qrData).
TokenTaken(db, tid, qr) == \E t \in DOMAIN db \ {tid} : db[t].qrData = qr

TransferKeepsToken(doc, sender, recipient, time) ==
    [doc EXCEPT !.transferHistory = Append(@, [from |-> sender, to |-> recipient,
                                               date |-> time]),
                !.owner = recipient, !.updatedAt = time]

\* transferHistory.push, owner, qrData (qrCode is the picture of qrData) and
\* the updatedAt stamp of save()
ApplyTransfer(doc, sender, recipient, time) ==
    [doc EXCEPT !.transferHistory = Append(@, [from |-> sender, to |-> recipient,
                                               date |-> time]),
                !.owner = recipient,
                !.qrData = QrData(doc.event, recipient, time),
                !.updatedAt = time]

\* The handler from startTransaction to the response.
TransferOutcome(db, time, user, tid, email, scope) ==
    IF tid \notin DOMAIN db
    THEN [res |-> ErrorReply(404, "Ticket not found"), tickets |-> db, session |-> Aborted]
    ELSE IF scope = "unbound"
    THEN [res |-> ErrorReply(500, "req is not defined"), tickets |-> db, session |-> Aborted]
    ELSE IF scope # "god" /\ db[tid].owner # user
    THEN [res |-> ErrorReply(403, "You do not own this ticket"), tickets |-> db, session |-> Aborted]
    ELSE IF email \notin Users
    THEN [res |-> ErrorReply(404, "Recipient not found"), tickets |-> db, session |-> Aborted]
    ELSE IF TokenTaken(db, tid, QrData(db[tid].event, email, time))
    THEN [res |-> ErrorReply(500, "E11000 duplicate key"), tickets |-> db, session |-> Aborted]
    ELSE [res |-> Reply(200, [success |-> TRUE, ticketId |-> tid,
                              newQRCode |-> QrData(db[tid].event, email, time)]),
          tickets |-> [db EXCEPT ![tid] = ApplyTransfer(@, user, email, time)],
          session |-> Committed]

Transfer(user, tid, email, scope) ==
    LET out == TransferOutcome(tickets, now, user, tid, email, scope) IN
    /\ Len(log) < MaxReq
    /\ tickets' = out.tickets
    /\ validateReq' = MarkConflicts(validateReq,
                           {t \in DOMAIN tickets : out.tickets[t] # tickets[t]})
    /\ log' = Append(log, [op |-> "transfer", tid |-> tid, user |-> user, to |-> email,
                           scope |-> scope, res |-> out.res, session |-> out.session])
    /\ UNCHANGED <<events, payments, now, refundReq, lastHook>>
    /\ UNCHANGED pipeline

\* `admin-${Date.now()}`
AdminKeys == <<"admin-0", "admin-1", "admin-2", "admin-3">>
AdminKey(time) == AdminKeys[time + 1]

\* No refundAmount in the body.
NoAmount == -1

\* refundAmount || ticket.price: the price when refundAmount is undefined or 0
ForceRefundAmount(doc, refundAmount) ==
    IF refundAmount = NoAmount \/ refundAmount = 0 THEN doc.price ELSE refundAmount

ForceRefundUnguarded(doc) == "ok"

\* The one test of the route before it refunds.
ForceRefundGuard(doc) ==
    IF doc.status = "REFUNDED" THEN "Ticket already refunded" ELSE "ok"

ApplyForceRefund(doc, admin, refundAmount, time) ==
    [doc EXCEPT !.status = "REFUNDED", !.updatedAt = time,
                !.refundHistory = Append(@,
                    [ id |-> 0, idempotencyKey |-> AdminKey(time), processedAt |-> time,
                      processedBy |-> admin,
                      amount |-> ForceRefundAmount(doc, refundAmount),
                      status |-> "COMPLETED", adminOverride |-> TRUE ])]

\* POST /force-refund past auth: requireSuperAdmin, then the handler.
ForceRefundOutcome(db, time, admin, tid, refundAmount) ==
    IF admin \notin SuperAdmins
    THEN [res |-> ErrorReply(403, "Super admin access required"), tickets |-> db,
          session |-> NoSession]
    ELSE IF tid \notin DOMAIN db
    THEN [res |-> ErrorReply(404, "Ticket not found"), tickets |-> db, session |-> Aborted]
    ELSE IF ForceRefundGuard(db[tid]) # "ok"
    THEN [res |-> ErrorReply(400, ForceRefundGuard(db[tid])), tickets |-> db, session |-> Aborted]
    ELSE [res |-> Reply(200, [success |-> TRUE, ticketId |-> tid,
                              amount |-> ForceRefundAmount(db[tid], refundAmount)]),
          tickets |-> [db EXCEPT ![tid] = ApplyForceRefund(@, admin, refundAmount, time)],
          session |-> Committed]

ForceRefund(admin, tid, refundAmount) ==
    LET out == ForceRefundOutcome(tickets, now, admin, tid, refundAmount) IN
    /\ Len(log) < MaxReq
    /\ tickets' = out.tickets
    /\ validateReq' = MarkConflicts(validateReq,
                           {t \in DOMAIN tickets : out.tickets[t] # tickets[t]})
    /\ log' = Append(log, [op |-> "force-refund", tid |-> tid, user |-> admin,
                           key |-> AdminKey(now), refundAmount |-> refundAmount,
                           res |-> out.res, session |-> out.session])
    /\ UNCHANGED <<events, payments, now, refundReq, lastHook>>
    /\ UNCHANGED pipeline

ValidateInFlight == {s \in Slots : validateReq[s].pc \in {"find", "save"}}

\* No request is being served.
Quiet == RefundInFlight = {} /\ ValidateInFlight = {}

----------------------------------------------------------------------------
(* Request pipeline: rate limiters, login and the health check (app.js)    *)

Clients == {"c1"}                     \* req.ip, the key of the limiters' stores
Limiters == {"global", "auth"}
Paths == {"login", "health"}
MaxWindow == 102                      \* requests a client sends in one window

GlobalMax == 100                      \* globalLimiter: max
AuthMax == 10                         \* authLimiter: max

\* app.js: `// app.use(globalLimiter);` and
\* `// app.use('/api/auth/login', authLimiter);` are comments
GlobalLimiterMounted == FALSE
AuthLimiterMounted == FALSE

\* rateLimit({windowMs, max, handler}) in front of a route: a mounted limiter
\* counts the request and calls its handler once the count exceeds max; a
\* limiter that is not mounted sees nothing.  All requests of a behaviour fall
\* into one window (15 minutes).
Limit(store, limiter, mounted, max, client) ==
    IF mounted
    THEN [ store |-> [store EXCEPT ![limiter][client] = @ + 1],
           limited |-> store[limiter][client] + 1 > max ]
    ELSE [ store |-> store, limited |-> FALSE ]

TooManyRequests == ErrorReply(429, "Too many requests, please try again later")
TooManyLogins ==
    ErrorReply(429, "Too many login attempts, please try again in 15 minutes")


\* jwt.sign({id, role, isGodMode: user.role === 'super_admin'}, JWT_SECRET)
AccessToken(id, role) == [id |-> id, role |-> role, isGodMode |-> role = "super_admin"]

\* POST /login: User.findOne({email}) and bcrypt.compare
LoginOutcome(db, email, password) ==
    IF email \notin DOMAIN db \/ password # "right"
    THEN ErrorReply(401, "Invalid credentials")
    ELSE Reply(200, [accessToken |-> AccessToken(email, db[email].role)])

Sent(client) == traffic[client]["login"].n + traffic[client]["health"].n

\* POST /api/auth/login through the middleware chain of app.js
Login(client, email, password) ==
    LET g == Limit(hits, "global", GlobalLimiterMounted, GlobalMax, client)
        a == Limit(g.store, "auth", AuthLimiterMounted, AuthMax, client)
        res == IF g.limited THEN TooManyRequests
               ELSE IF a.limited THEN TooManyLogins
               ELSE LoginOutcome(users, email, password)
    IN
    /\ Sent(client) < MaxWindow
    /\ hits' = IF g.limited THEN g.store ELSE a.store
    /\ issued' = IF res.code = 200 THEN issued \cup {res.body.accessToken} ELSE issued
    /\ traffic' = [traffic EXCEPT ![client]["login"] = [n |-> @.n + 1, res |-> res]]
    /\ UNCHANGED <<tickets, events, payments, now, refundReq, validateReq, lastHook, log>>
    /\ UNCHANGED <<users, activeRequests, inFlight>>

\* GET /api/health: the health router has /live and /ready only, so the
\* request reaches app.get('/api/health')
Health(client) ==
    LET g == Limit(hits, "global", GlobalLimiterMounted, GlobalMax, client)
        res == IF g.limited THEN TooManyRequests
               ELSE Reply(200, [status |-> "healthy"])
    IN
    /\ Sent(client) < MaxWindow
    /\ hits' = g.store
    /\ traffic' = [traffic EXCEPT ![client]["health"] = [n |-> @.n + 1, res |-> res]]
    /\ UNCHANGED <<tickets, events, payments, now, refundReq, validateReq, lastHook, log>>
    /\ UNCHANGED <<users, issued, activeRequests, inFlight>>

----------------------------------------------------------------------------
(* God Mode: middleware/auth.js, requireSuperAdmin and the admin routes    *)

NoUser == "nouser"                    \* User.findById resolved to null

\* auth.js past jwt.verify.  A token whose payload has isGodMode takes the
\* first branch: req.user is whatever findById gives, req.isGodMode is set and
\* next() is called; otherwise a missing user ends the request with 401.
Authenticate(db, token) ==
    LET user == IF token.id \in DOMAIN db THEN token.id ELSE NoUser IN
    IF token.isGodMode
    THEN [next |-> TRUE, user |-> user, isGodMode |-> TRUE]
    ELSE IF user = NoUser
    THEN [next |-> FALSE, user |-> NoUser, isGodMode |-> FALSE]
    ELSE [next |-> TRUE, user |-> user, isGodMode |-> FALSE]

\* requireSuperAdmin on a request that passed auth: reading req.user.role of a
\* null user throws a TypeError; another role is refused; a super admin gets
\* req.isGodMode = true.
RequireSuperAdmin(db, req) ==
    IF req.user = NoUser
    THEN [req EXCEPT !.next = FALSE] @@ [res |-> ErrorReply(500, "Cannot read properties of null")]
    ELSE IF db[req.user].role # "super_admin"
    THEN [req EXCEPT !.next = FALSE] @@ [res |-> ErrorReply(403, "Super admin access required")]
    ELSE [req EXCEPT !.isGodMode = TRUE] @@ [res |-> NoResponse]

UserNotFound == Reply(401, [message |-> "USER_NOT_FOUND"])

\* PATCH /users/:userId/role: auth, requireSuperAdmin, User.findByIdAndUpdate
UpdateRoleOutcome(db, token, userId, newRole) ==
    LET req == Authenticate(db, token)
        admin == RequireSuperAdmin(db, req)
    IN
    IF ~req.next THEN [res |-> UserNotFound, users |-> db, req |-> req]
    ELSE IF ~admin.next THEN [res |-> admin.res, users |-> db, req |-> req]
    ELSE IF userId \notin DOMAIN db
    THEN [res |-> ErrorReply(404, "User not found"), users |-> db, req |-> admin]
    ELSE [res |-> Reply(200, [success |-> TRUE, user |-> userId, role |-> newRole]),
          users |-> [db EXCEPT ![userId].role = newRole], req |-> admin]

UpdateRole(token, userId, newRole) ==
    LET out == UpdateRoleOutcome(users, token, userId, newRole) IN
    /\ Len(log) < MaxReq
    /\ users' = out.users
    /\ log' = Append(log, [op |-> "role", token |-> token, user |-> out.req.user,
                           isGodMode |-> out.req.isGodMode, target |-> userId,
                           res |-> out.res])
    /\ UNCHANGED <<tickets, events, payments, now, refundReq, validateReq, lastHook>>
    /\ UNCHANGED <<issued, hits, traffic, activeRequests, inFlight>>

\* POST /nuke-database: auth, then `if (!req.isGodMode) throw 403`, then
\* mongoose.connection.dropDatabase().  The Event collection is kept here as
\* sold counters per event, which the drop returns to zero.
NukeDatabase(token) ==
    LET req == Authenticate(users, token)
        dropped == req.next /\ req.isGodMode
        res == IF ~req.next THEN UserNotFound
               ELSE IF ~req.isGodMode THEN ErrorReply(403, "God Mode required")
               ELSE Reply(200, [message |-> "Database obliterated"])
    IN
    /\ Len(log) < MaxReq
    /\ users' = IF dropped THEN [u \in {} |-> NoDoc] ELSE users
    /\ tickets' = IF dropped THEN [t \in {} |-> NoDoc] ELSE tickets
    /\ payments' = IF dropped THEN <<>> ELSE payments
    /\ events' = IF dropped THEN [e \in EventIds |-> [tier \in Tiers |-> 0]] ELSE events
    /\ log' = Append(log, [op |-> "nuke", token |-> token, user |-> req.user,
                           isGodMode |-> req.isGodMode, res |-> res])
    /\ UNCHANGED <<now, refundReq, validateReq, lastHook>>
    /\ UNCHANGED <<issued, hits, traffic, activeRequests, inFlight>>

----------------------------------------------------------------------------
(* Request tracing: middleware/tracing.js                                  *)

NoHeader == "noheader"                \* no x-request-id header
RequestIdHeaders == {NoHeader, "x1"}

\* req.headers['x-request-id'] || uuidv4(): a generated id is new every time
RequestUuids == <<"rid-1", "rid-2", "rid-3", "rid-4", "rid-5">>
RequestIdOf(r, header) == IF header = NoHeader THEN RequestUuids[r] ELSE header

\* if (activeRequests.has(requestId)) return next();
AlreadyTracked(active, requestId) == requestId \in active

\* The middleware, from the first line to next().  A request whose id is in
\* the set goes on untouched: no req.requestId, no req.logger, no listeners.
TracingEnter(r, header) ==
    LET requestId == RequestIdOf(r, header)
        skip == AlreadyTracked(activeRequests, requestId)
    IN
    /\ r \notin DOMAIN inFlight
    /\ \A q \in 1..(r - 1) : q \in DOMAIN inFlight
    /\ activeRequests' = IF skip THEN activeRequests ELSE activeRequests \cup {requestId}
    /\ inFlight' = [q \in DOMAIN inFlight \cup {r} |->
                      IF q = r
                      THEN [ id |-> requestId, logger |-> ~skip, listeners |-> ~skip,
                             completed |-> 0, phase |-> "open" ]
                      ELSE inFlight[q]]
    /\ UNCHANGED <<tickets, events, payments, now, refundReq, validateReq, lastHook, log>>
    /\ UNCHANGED <<users, issued, hits, traffic>>

\* cleanup(): log 'Request completed', delete the id from the set, take both
\* listeners off
Cleanup(active, req) ==
    [ active |-> active \ {req.id},
      req |-> [req EXCEPT !.completed = @ + 1, !.listeners = FALSE] ]

\* An event of the response ('finish' or 'close') reaches the request.
ResponseEvent(r, phase) ==
    LET req == [inFlight[r] EXCEPT !.phase = phase]
        done == Cleanup(activeRequests, req)
    IN
    /\ activeRequests' = IF req.listeners THEN done.active ELSE activeRequests
    /\ inFlight' = [inFlight EXCEPT ![r] = IF req.listeners THEN done.req ELSE req]
    /\ UNCHANGED <<tickets, events, payments, now, refundReq, validateReq, lastHook, log>>
    /\ UNCHANGED <<users, issued, hits, traffic>>

\* 'finish': the response has been handed to the socket.
ResponseFinish(r) ==
    /\ r \in DOMAIN inFlight /\ inFlight[r].phase = "open"
    /\ ResponseEvent(r, "finished")

\* 'close': after 'finish', or instead of it when the client goes away.
ResponseClose(r) ==
    /\ r \in DOMAIN inFlight /\ inFlight[r].phase \in {"open", "finished"}
    /\ ResponseEvent(r, "closed")

----------------------------------------------------------------------------
(* Initial states *)

\* A ticket after one successful POST /validate at time 0.
UsedTicket(doc, validator) ==
    [doc EXCEPT !.isUsed = TRUE,
                !.validationHistory = <<[timestamp |-> 0, validatedBy |-> validator,
                                         location |-> "Unknown"]>>]

NoHook == [seq |-> 0]

InitStore ==
    /\ events = [e \in EventIds |-> [tier \in Tiers |-> 0]]
    /\ payments = <<>>
    /\ now = 0
    /\ lastHook = NoHook
    /\ log = <<>>
    /\ refundReq = [s \in Slots |-> IdleRefund]
    /\ users = [u \in Users |->
                  [role |-> IF u \in SuperAdmins THEN "super_admin" ELSE "attendee"]]
    /\ issued = {}
    /\ hits = [l \in Limiters |-> [c \in Clients |-> 0]]
    /\ traffic = [c \in Clients |-> [p \in Paths |-> [n |-> 0, res |-> NoResponse]]]
    /\ activeRequests = {}
    /\ inFlight = [r \in {} |-> NoDoc]

\* Refunds: one fresh ticket of u1, and a ticket of u2 that may have been validated.
InitRefund ==
    /\ InitStore
    /\ \E used \in BOOLEAN :
         tickets = [t \in {"t1", "t2"} |->
                      IF t = "t1" THEN NewTicket("e1", "u1", "General")
                      ELSE IF used THEN UsedTicket(NewTicket("e1", "u2", "VIP"), "u1")
                      ELSE NewTicket("e1", "u2", "VIP")]
    /\ validateReq = [s \in Slots |-> IdleValidate]

\* Validation: two unused tickets.
InitValidate ==
    /\ InitStore
    /\ tickets = [t \in {"t1", "t2"} |->
                    IF t = "t1" THEN NewTicket("e1", "u1", "General")
                    ELSE NewTicket("e1", "u2", "VIP")]
    /\ validateReq = [s \in Slots |-> IdleValidate]

ScanTokens == {QrData("e1", "u1", 0), QrData("e1", "u2", 0), QrData("e2", "u1", 0)}

ValidateNext ==
    \/ \E s \in Slots, token \in ScanTokens, user \in Users, location \in Locations :
          ValidateReceive(s, token, user, location)
    \/ \E s \in Slots : ValidateFind(s)
    \/ \E s \in Slots : ValidateSave(s)
    \/ Tick

SpecValidate == InitValidate /\ [][ValidateNext]_vars

\* Webhooks: three unpaid tickets, two of the same event and tier.
InitWebhook ==
    /\ InitStore
    /\ tickets = [t \in {"t1", "t2", "t3"} |->
                    IF t = "t1" THEN NewTicket("e1", "u1", "General")
                    ELSE IF t = "t2" THEN NewTicket("e1", "u2", "General")
                    ELSE NewTicket("e2", "u1", "VIP")]
    /\ validateReq = [s \in Slots |-> IdleValidate]

Body(txn, status, ids, amount, currency, method) ==
    [ transactionId |-> txn, status |-> status, ticketIds |-> ids, amount |-> amount,
      currency |-> currency, paymentMethod |-> method ]

IdLists == { <<"t1">>, <<"t1", "t2">>, <<"t3", "t1">>, <<"t2", "t9">> }

\* Well-formed payloads; the amount is 200 per listed ticket, which is the sum
\* of the prices for <<t1>> and <<t1, t2>> (200 each) and not for <<t3, t1>>
\* (500 + 200), or 350 per ticket for <<t3, t1>>, which is.
Bodies ==
    { Body(txn, status, ids, 200 * Len(ids), "SZL", "momo") :
        txn \in {"txn1", "txn2"}, status \in {"success", "failed"}, ids \in IdLists }
    \cup
    { Body(txn, status, <<"t3", "t1">>, 700, "SZL", "momo") :
        txn \in {"txn1", "txn2"}, status \in {"success", "failed"} }

\* The payload with one field left out, as JSON.stringify and the gate see it.
Without(body, field) ==
    IF field = "transactionId" THEN [body EXCEPT !.transactionId = ""]
    ELSE IF field = "status" THEN [body EXCEPT !.status = ""]
    ELSE IF field = "ticketIds" THEN [body EXCEPT !.ticketIds = <<>>]
    ELSE IF field = "amount" THEN [body EXCEPT !.amount = 0]
    ELSE IF field = "currency" THEN [body EXCEPT !.currency = ""]
    ELSE IF field = "paymentMethod" THEN [body EXCEPT !.paymentMethod = ""]
    ELSE body

RequiredFields == {"transactionId", "status", "ticketIds", "amount", "currency",
                   "paymentMethod"}

\* Payloads for the gates: a well-formed payload, complete or with one field left out.
GateBodies ==
    { Without(Body("txn1", status, ids, 200 * Len(ids), "SZL", "momo"), field) :
        status \in {"success", "failed"}, ids \in {<<"t1">>, <<"t1", "t2">>},
        field \in RequiredFields \cup {"none"} }

\* The signature header: absent, right, made with another secret, or made for
\* another body.
Signatures(body) ==
    { NoSig, Hmac(Secret, body), Hmac("guess", body),
      Hmac(Secret, [body EXCEPT !.amount = @ + 100]) }

WebhookNext ==
    \E key \in {"k1"}, body \in Bodies, failAt \in FailPoints :
          WebhookDeliver(key, Hmac(Secret, body), body, failAt)

GatesNext ==
    \E key \in {NoKey, "k1"}, body \in GateBodies, failAt \in {"none", "savePayment"} :
          \E sig \in Signatures(body) : WebhookDeliver(key, sig, body, failAt)

SpecWebhook == InitWebhook /\ [][WebhookNext]_vars
SpecWebhookGates == InitWebhook /\ [][GatesNext]_vars

\* Purchases: an empty Ticket collection; e1 is active, e2 is not.
InitPurchase ==
    /\ InitStore
    /\ tickets = [t \in {} |-> NoDoc]
    /\ validateReq = [s \in Slots |-> IdleValidate]

BatchItems ==
    { <<[tier |-> "General", quantity |-> 1]>>,
      <<[tier |-> "General", quantity |-> 2]>>,
      <<[tier |-> "VIP", quantity |-> 1], [tier |-> "General", quantity |-> 1]>> }

\* Success deliveries that pay the purchased tickets one at a time.
PurchaseBodies ==
    { Body("txn1", "success", <<id>>, 200, "SZL", "momo") : id \in {"p1", "p2", "p3"} }

PurchaseNext ==
    \/ \E user \in {"u1"}, ev \in EventIds \cup {MissingEvent}, tier \in {"General"},
          quantity \in 1..2 : Purchase("k1", user, ev, tier, quantity)
    \/ \E user \in {"u1"}, ev \in {"e1", MissingEvent}, items \in BatchItems, failAt \in 0..2 :
          BatchPurchase(user, ev, items, failAt)
    \/ Tick

\* Purchases interleaved with the payment webhooks for the purchased tickets.
PurchasePayNext ==
    \/ PurchaseNext
    \/ \E body \in PurchaseBodies : WebhookDeliver("k1", Hmac(Secret, body), body, "none")

SpecPurchase == InitPurchase /\ [][PurchaseNext]_vars
SpecPurchasePay == InitPurchase /\ [][PurchasePayNext]_vars

RefundNext ==
    \/ \E s \in Slots, tid \in DOMAIN tickets \cup {MissingTicket}, key \in Keys, user \in Users :
          RefundReceive(s, tid, key, user)
    \/ \E s \in Slots : RefundCheck(s)
    \/ \E s \in Slots : RefundLoad(s)
    \/ \E s \in Slots : RefundSave(s)
    \/ Tick

\* Requests are served one after another: a request is taken only when none is in flight.
RefundSeqNext ==
    \/ \E s \in Slots, tid \in {"t1", MissingTicket}, key \in Keys, user \in Users :
          RefundInFlight = {} /\ RefundReceive(s, tid, key, user)
    \/ \E s \in Slots : RefundCheck(s)
    \/ \E s \in Slots : RefundLoad(s)
    \/ \E s \in Slots : RefundSave(s)
    \/ Tick

SpecRefund == InitRefund /\ [][RefundNext]_vars
SpecRefundSeq == InitRefund /\ [][RefundSeqNext]_vars

\* The tokens a scanner may present: the ones issued at the start and the
\* ones the tickets carry now.
PresentedTokens == ScanTokens \cup {tickets[t].qrData : t \in DOMAIN tickets}

\* Transfers and scans, served one after another.
TransferNext ==
    \/ \E user \in Users, email \in Users \cup {UnknownEmail}, scope \in {"unbound", "plain"} :
          Quiet /\ Transfer(user, "t1", email, scope)
    \/ \E s \in Slots, token \in {QrData("e1", "u1", 0)} \cup {tickets["t1"].qrData} :
          Quiet /\ Len(log) < MaxReq /\ ValidateReceive(s, token, "u2", "Gate A")
    \/ \E s \in Slots : ValidateFind(s)
    \/ \E s \in Slots : ValidateSave(s)
    \/ Tick

SpecTransfer == InitValidate /\ [][TransferNext]_vars

\* Owner refunds and admin force-refunds, served one after another.
RefundAdminNext ==
    \/ \E s \in Slots, tid \in {"t1", "t2"}, key \in Keys, user \in Users :
          Quiet /\ Len(log) < MaxReq /\ RefundReceive(s, tid, key, user)
    \/ \E s \in Slots : RefundCheck(s)
    \/ \E s \in Slots : RefundLoad(s)
    \/ \E s \in Slots : RefundSave(s)
    \/ \E tid \in {"t1", "t2"} : Quiet /\ ForceRefund("u2", tid, NoAmount)
    \/ Tick

SpecRefundAdmin == InitRefund /\ [][RefundAdminNext]_vars

\* Refunds of a fresh ticket (t1) and of a ticket that may be used (t2), asked
\* for by u2 (who owns t2) on the owner route, and force-refunds by either user
\* with an override amount of 0 or 50.
ForceRefundNext ==
    \/ \E s \in Slots, tid \in {"t1", "t2"} :
          Quiet /\ Len(log) < MaxReq /\ RefundReceive(s, tid, "k1", "u2")
    \/ \E s \in Slots : RefundCheck(s)
    \/ \E s \in Slots : RefundLoad(s)
    \/ \E s \in Slots : RefundSave(s)
    \/ \E admin \in Users, tid \in {"t1", "t2"}, refundAmount \in {0, 50} :
          Quiet /\ ForceRefund(admin, tid, refundAmount)
    \/ Tick

SpecForceRefund == InitRefund /\ [][ForceRefundNext]_vars

\* Owner refunds that carry an idempotency-key header or none.
RefundKeysNext ==
    \/ \E s \in Slots, tid \in {"t1", "t2"}, header \in {NoKey, "k1"}, user \in Users :
          Quiet /\ Len(log) < MaxReq /\ RefundRequest(s, tid, header, user)
    \/ \E s \in Slots : RefundCheck(s)
    \/ \E s \in Slots : RefundLoad(s)
    \/ \E s \in Slots : RefundSave(s)
    \/ Tick

SpecRefundKeys == InitRefund /\ [][RefundKeysNext]_vars

\* Scan tokens: single and batch purchases by one buyer for one event, and
\* transfers of the purchased tickets between the two users.
TokensNext ==
    \/ Purchase("k1", "u1", "e1", "General", 1)
    \/ \E failAt \in {0, 2} :
          BatchPurchase("u1", "e1", <<[tier |-> "General", quantity |-> 2]>>, failAt)
    \/ \E tid \in DOMAIN tickets, email \in Users :
          Transfer(tickets[tid].owner, tid, email, "plain")
    \/ Tick

SpecTokens == InitPurchase /\ [][TokensNext]_vars

\* The life of a ticket: purchase, transfer, validate, refund and force-refund
\* requests served one after another.
LifecycleNext ==
    \/ \E ev \in EventIds : Quiet /\ Purchase("k1", "u1", ev, "General", 1)
    \/ \E user \in Users, tid \in {"t1", "t2"}, email \in Users, scope \in ReqScopes :
          Quiet /\ Transfer(user, tid, email, scope)
    \/ \E s \in Slots, token \in PresentedTokens :
          Quiet /\ Len(log) < MaxReq /\ ValidateReceive(s, token, "u2", "Gate A")
    \/ \E s \in Slots : ValidateFind(s)
    \/ \E s \in Slots : ValidateSave(s)
    \/ \E s \in Slots, tid \in {"t1", "t2"}, user \in Users :
          Quiet /\ Len(log) < MaxReq /\ RefundReceive(s, tid, "k1", user)
    \/ \E s \in Slots : RefundCheck(s)
    \/ \E s \in Slots : RefundLoad(s)
    \/ \E s \in Slots : RefundSave(s)
    \/ \E tid \in {"t1", "t2"} : Quiet /\ ForceRefund("u2", tid, NoAmount)
    \/ Tick

SpecLifecycle == InitRefund /\ [][LifecycleNext]_vars

\* Payloads whose status is 'success', 'failed' or something else, for one or
\* two tickets of 200 each.
StatusBodies ==
    { Body(txn, status, ids, 200 * Len(ids), "SZL", "momo") :
        txn \in {"txn1", "txn2"}, status \in {"success", "failed", "pending"},
        ids \in {<<"t1">>, <<"t1", "t2">>} }

WebhookStatusNext ==
    \E body \in StatusBodies, failAt \in {"none", "commit"} :
          WebhookDeliver("k1", Hmac(Secret, body), body, failAt)

SpecWebhookStatus == InitWebhook /\ [][WebhookStatusNext]_vars

\* The handlers that open a transaction, served one after another.
SessionsNext ==
    \/ \E status \in {"success", "failed", "pending"}, failAt \in {"none", "commit"} :
          LET body == Body("txn1", status, <<"t1">>, 200, "SZL", "momo") IN
          WebhookDeliver("k1", Hmac(Secret, body), body, failAt)
    \/ \E tid \in {"t1", MissingTicket} : ForceRefund("u2", tid, NoAmount)
    \/ \E email \in {"u2", UnknownEmail} : Transfer("u1", "t1", email, "plain")
    \/ \E ev \in {"e1", MissingEvent} :
          BatchPurchase("u1", ev, <<[tier |-> "General", quantity |-> 1]>>, 0)
    \/ Tick

SpecSessions == InitWebhook /\ [][SessionsNext]_vars

\* Logins, role changes and database drops by the two users.
GodModeNext ==
    \/ \E email \in Users :
          traffic["c1"]["login"].n < MaxReq /\ Login("c1", email, "right")
    \/ \E token \in issued, userId \in Users, newRole \in {"attendee", "super_admin"} :
          UpdateRole(token, userId, newRole)
    \/ \E token \in issued : NukeDatabase(token)

SpecGodMode == InitValidate /\ [][GodModeNext]_vars

\* Requests with and without an x-request-id header, overlapping freely.
TracingNext ==
    \/ \E r \in Slots, header \in RequestIdHeaders : TracingEnter(r, header)
    \/ \E r \in Slots : ResponseFinish(r)
    \/ \E r \in Slots : ResponseClose(r)

SpecTracing == InitValidate /\ [][TracingNext]_vars

\* One client's logins with wrong credentials and health checks, in any order.
LimitsNext ==
    \/ \E client \in Clients : Login(client, UnknownEmail, "wrong")
    \/ \E client \in Clients : Health(client)

SpecLimits == InitValidate /\ [][LimitsNext]_vars

----------------------------------------------------------------------------
(* Properties of the refund handler *)

RefundLog == {i \in 1..Len(log) : log[i].op = "refund"}
IsCompleted(res) == res.code = 200 /\ res.body.status = "completed"
IsDeduplicated(res) == res.code = 200 /\ res.body.status = "deduplicated"

\* The first response sent for the (ticket, key) of response i.
FirstFor(i) ==
    CHOOSE f \in RefundLog :
        /\ log[f].tid = log[i].tid /\ log[f].key = log[i].key
        /\ \A g \in RefundLog :
              (log[g].tid = log[i].tid /\ log[g].key = log[i].key) => f <= g

NoDuplicateRefundKey ==
    \A t \in DOMAIN tickets :
        LET h == tickets[t].refundHistory IN
        \A i, j \in 1..Len(h) : i # j => h[i].idempotencyKey # h[j].idempotencyKey

\* C1: when refund requests are served one after another, no ticket's refund
\* history ever holds two entries with the same idempotency key, and a request
\* whose (ticket, key) already has an entry is answered without going on to the
\* refund and leaves every ticket as it was.
C1_RefundKeyUnique ==
    /\ NoDuplicateRefundKey
    /\ [][ /\ NoDuplicateRefundKey'
           /\ \A s \in Slots :
                (refundReq[s].pc = "check"
                   /\ ExistingRefund(tickets, refundReq[s].tid, refundReq[s].key))
                => (refundReq'[s].pc \in {"check", "done"} /\ tickets' = tickets) ]_vars

\* C1 witness: a repeated key was answered from the stored entry and the
\* ticket holds exactly one entry.
C1_Witness ==
    \E i \in RefundLog :
        /\ IsDeduplicated(log[i].res)
        /\ Len(tickets[log[i].tid].refundHistory) = 1

C3_OneRefundPerTicket ==
    \A t \in DOMAIN tickets :
        /\ Len(tickets[t].refundHistory) <= 1
        /\ Cardinality({i \in RefundLog : log[i].tid = t /\ IsCompleted(log[i].res)}) <= 1

----------------------------------------------------------------------------
(* Properties of the validate handler *)

ValidateLog == {i \in 1..Len(log) : log[i].op = "validate"}
IsValid(res) == res.code = 200 /\ res.body.valid
IsAlreadyUsed(res) == res.code = 400 /\ res.body.message = "Ticket already used"

\* C4 as claimed: of the validate requests racing on one ticket exactly one
\* succeeds and appends the only validation entry; every other one is rejected
\* as already used with the timestamp of that entry.
C4_LoserSeesAlreadyUsed ==
    \A t \in DOMAIN tickets :
        /\ Len(tickets[t].validationHistory) <= 1
        /\ Cardinality({i \in ValidateLog : log[i].tid = t /\ IsValid(log[i].res)}) <= 1
        /\ \A i \in ValidateLog :
              (log[i].tid = t /\ ~IsValid(log[i].res))
              => /\ IsAlreadyUsed(log[i].res)
                 /\ Len(tickets[t].validationHistory) = 1
                 /\ log[i].res.body.firstUsed = tickets[t].validationHistory[1].timestamp

----------------------------------------------------------------------------
(* Properties of the payment webhook handler *)

\* The step is a webhook delivery; lastHook' then describes it.
Delivered == lastHook'.seq # lastHook.seq
StoreUnchanged == UNCHANGED <<tickets, events, payments>>
HasDelivery == lastHook # NoHook

KeyPresent(h) == h.key # NoKey
SignatureMatches(h) == h.sig # NoSig /\ h.sig = Hmac(Secret, h.body)
LacksRequiredField(h) ==
    \/ h.body.transactionId = "" \/ h.body.status = "" \/ h.body.ticketIds = <<>>
    \/ h.body.amount = 0 \/ h.body.currency = "" \/ h.body.paymentMethod = ""
PassesGates(h) == KeyPresent(h) /\ SignatureMatches(h) /\ ~LacksRequiredField(h)
AllStored(db, ids) == \A i \in 1..Len(ids) : ids[i] \in DOMAIN db
NoRepeats(ids) == \A i, j \in 1..Len(ids) : i # j => ids[i] # ids[j]
PriceSum(db, idSet) ==
    LET RECURSIVE Sum(_)
        Sum(S) == IF S = {} THEN 0
                  ELSE LET t == CHOOSE x \in S : TRUE IN db[t].price + Sum(S \ {t})
    IN Sum(idSet)

\* C5: a success delivery that passes the gates and names only stored tickets,
\* at least one of which carries a transaction id, is answered 409 and leaves
\* tickets, sold counters and payments as they were; and no success delivery
\* changes a ticket that already carries a transaction id.
C5_DuplicateTransactionRejected ==
    [][ Delivered =>
          LET h == lastHook' IN
          (PassesGates(h) /\ h.body.status = "success") =>
            /\ ( /\ AllStored(tickets, h.body.ticketIds) /\ NoRepeats(h.body.ticketIds)
                 /\ \E t \in Range(h.body.ticketIds) : tickets[t].transactionId # NoTxn )
               => (h.res.code = 409 /\ StoreUnchanged)
            /\ \A t \in DOMAIN tickets :
                 tickets[t].transactionId # NoTxn => tickets'[t] = tickets[t] ]_vars

\* C5 witness: a success delivery was answered 409 while a named ticket is
\* payment-confirmed.
C5_Witness ==
    /\ HasDelivery
    /\ lastHook.body.status = "success" /\ lastHook.res.code = 409
    /\ \E t \in Range(lastHook.body.ticketIds) :
         t \in DOMAIN tickets /\ tickets[t].paymentStatus = "confirmed"

C7_InvalidSignatureChangesNothing ==
    [][ (Delivered /\ ~SignatureMatches(lastHook')) => StoreUnchanged ]_vars

\* C7 witness: a delivery with key and every field, which would have settled an
\* unpaid ticket, was turned away for its signature.
C7_Witness ==
    /\ HasDelivery
    /\ KeyPresent(lastHook) /\ ~SignatureMatches(lastHook) /\ ~LacksRequiredField(lastHook)
    /\ lastHook.sig # NoSig
    /\ lastHook.body.ticketIds = <<"t1">> /\ lastHook.body.amount = 200
    /\ tickets["t1"].transactionId = NoTxn
    /\ lastHook.res.code = 401

AllApplied(h) ==
    /\ \A t \in Range(h.body.ticketIds) :
         /\ tickets'[t].paymentStatus = "confirmed"
         /\ tickets'[t].transactionId = h.body.transactionId
         /\ tickets'[t].paymentMethod = h.body.paymentMethod
    /\ Len(payments') = Len(payments) + 1
    /\ payments'[Len(payments')].transactionId = h.body.transactionId
    /\ payments'[Len(payments')].tickets = h.body.ticketIds
    /\ \A e \in EventIds, tier \in Tiers : events'[e][tier] >= events[e][tier]
    /\ events' # events

C9_WitnessAbort ==
    /\ HasDelivery
    /\ lastHook.body.status = "success" /\ lastHook.res.code = 500
    /\ \A t \in DOMAIN tickets : tickets[t].transactionId = NoTxn

C11_AlwaysAcknowledged ==
    [][ (Delivered /\ PassesGates(lastHook'))
        => (lastHook'.res.code = 200 /\ lastHook'.res.body.acknowledged) ]_vars

----------------------------------------------------------------------------
(* Properties of the purchase handlers *)

\* The step answers a purchase request; the last entry of log' describes it.
Answered(op) == Len(log') = Len(log) + 1 /\ log'[Len(log')].op = op
Created == DOMAIN tickets' \ DOMAIN tickets
KeptAsWere == \A t \in DOMAIN tickets : t \in DOMAIN tickets' /\ tickets'[t] = tickets[t]

\* How many tickets of the tier the request asks for.
RECURSIVE Requested(_, _)
Requested(items, tier) ==
    IF Len(items) = 0 THEN 0
    ELSE (IF items[1].tier = tier THEN items[1].quantity ELSE 0)
         + Requested(Tail(items), tier)

\* C12: a batch purchase is all or nothing.  Answered 201, it created exactly
\* the requested number of tickets of each tier, for the buyer and the event,
\* and changed no other ticket; answered with an error, the Ticket collection
\* is as before.  Either way the sold counters are unchanged.
C12_BatchAllOrNothing ==
    [][ Answered("batch") =>
          LET r == log'[Len(log')] IN
          /\ events' = events
          /\ IF r.res.code = 201
             THEN /\ KeptAsWere
                  /\ \A tier \in Tiers :
                       Cardinality({t \in Created : tickets'[t].tier = tier})
                         = Requested(r.items, tier)
                  /\ \A t \in Created :
                       tickets'[t].owner = r.user /\ tickets'[t].event = r.event
                  /\ r.res.body.count = Cardinality(Created)
             ELSE tickets' = tickets ]_vars

\* C12 witness: a batch of two tickets for a stored event was answered with an
\* error and the collection holds no ticket.
C12_Witness ==
    /\ Len(log) > 0
    /\ LET r == log[Len(log)] IN
       /\ r.op = "batch" /\ r.event = "e1" /\ r.res.code = 500
       /\ Requested(r.items, "General") + Requested(r.items, "VIP") = 2
    /\ DOMAIN tickets = {}

C14_IssueNeedsActiveEventAndCapacity ==
    [][ (Answered("purchase") \/ Answered("batch")) =>
          \A t \in Created :
            /\ tickets'[t].event \notin InactiveEvents
            /\ events[tickets'[t].event][tickets'[t].tier]
                 < Capacity(tickets'[t].event, tickets'[t].tier) ]_vars

----------------------------------------------------------------------------
(* Properties of the ticket life cycle *)

LastEntry == log'[Len(log')]
Failed(res) == res.code >= 400
TerminalForTransfer(doc) == doc.isUsed \/ doc.status \in {"USED", "REFUNDED"}

C16_NoValidateAfterRefund ==
    [][ /\ \A t \in DOMAIN tickets :
             tickets[t].status = "REFUNDED"
             => /\ tickets'[t].isUsed = tickets[t].isUsed
                /\ tickets'[t].validationHistory = tickets[t].validationHistory
        /\ ( /\ Answered("validate")
             /\ LastEntry.tid \in DOMAIN tickets
             /\ tickets[LastEntry.tid].status = "REFUNDED" )
           => Failed(LastEntry.res) ]_vars

\* C17: a refund request answered while its ticket is already REFUNDED, through
\* the owner route with a key the refund history does not hold or through the
\* force-refund route, fails and changes nothing; a REFUNDED ticket's refund
\* history never grows.
C17_NoSecondRefund ==
    [][ /\ \A t \in DOMAIN tickets :
             tickets[t].status = "REFUNDED"
             => /\ tickets'[t].refundHistory = tickets[t].refundHistory
                /\ tickets'[t].status = "REFUNDED"
        /\ ( /\ Answered("refund") \/ Answered("force-refund")
             /\ LastEntry.tid \in DOMAIN tickets
             /\ tickets[LastEntry.tid].status = "REFUNDED"
             /\ \/ LastEntry.op = "force-refund"
                \/ FindRefund(tickets[LastEntry.tid].refundHistory, LastEntry.key) = 0 )
           => (Failed(LastEntry.res) /\ tickets' = tickets) ]_vars

\* C17 witness: t1 was refunded with k1; a refund of t1 with k2 and a
\* force-refund of t1 were both turned away, and t1 holds one refund entry.
C17_Witness ==
    /\ Len(log) = 3
    /\ log[1].op = "refund" /\ log[1].tid = "t1" /\ log[1].key = "k1"
    /\ log[1].res.code = 200
    /\ log[2].op = "refund" /\ log[2].tid = "t1" /\ log[2].key = "k2"
    /\ log[2].res = ErrorReply(500, "Ticket already refunded")
    /\ log[3].op = "force-refund" /\ log[3].tid = "t1"
    /\ log[3].res = ErrorReply(400, "Ticket already refunded")
    /\ Len(tickets["t1"].refundHistory) = 1

\* C18 as claimed: no ticket is both used and refunded.
C18_NeverUsedAndRefunded ==
    \A t \in DOMAIN tickets : ~(tickets[t].isUsed /\ tickets[t].status = "REFUNDED")

ScanMatchesCurrentToken ==
    \A s \in Slots :
      (validateReq[s].pc = "find" /\ validateReq'[s].pc # "find"
         /\ validateReq'[s].tid # MissingTicket)
      => validateReq[s].token = tickets[validateReq'[s].tid].qrData

C22_PurchasedTicket ==
    [][ (Answered("purchase") /\ LastEntry.res.code = 201) =>
          /\ Cardinality(Created) = 1
          /\ \A t \in Created :
               LET doc == tickets'[t] IN
               /\ doc.tier = LastEntry.items[1].tier
               /\ doc.price = EventPrice(LastEntry.event, doc.tier)
               /\ doc.owner = LastEntry.user
               /\ doc.status = "ACTIVE" /\ ~doc.isUsed
               /\ Len(doc.transferHistory) = 1
               /\ doc.transferHistory[1].from = LastEntry.user
               /\ doc.transferHistory[1].to = LastEntry.user ]_vars

\* C23 as claimed: a validate answered 200 set isUsed, set status USED and
\* appended one validation entry with the validator and the location.
C23_ValidateMarksUsed ==
    [][ (Answered("validate") /\ LastEntry.res.code = 200) =>
          LET t == LastEntry.tid
              hist == tickets'[t].validationHistory IN
          /\ tickets'[t].isUsed
          /\ tickets'[t].status = "USED"
          /\ Len(hist) = Len(tickets[t].validationHistory) + 1
          /\ hist[Len(hist)].validatedBy = LastEntry.user
          /\ hist[Len(hist)].location = validateReq[LastEntry.slot].location ]_vars

\* C24 as claimed: a scan of a used ticket is answered with the already-used
\* error carrying the timestamp of the ticket's first validation entry.
C24_AlreadyUsedCarriesFirstScan ==
    [][ ( /\ Answered("validate")
          /\ LastEntry.tid \in DOMAIN tickets
          /\ tickets[LastEntry.tid].isUsed )
        => /\ Failed(LastEntry.res)
           /\ LastEntry.res.body.message = "Ticket already used"
           /\ LastEntry.res.body.firstUsed
                = tickets[LastEntry.tid].validationHistory[1].timestamp ]_vars

\* C25 as claimed: an owner-route refund by someone who does not own the ticket
\* is answered 403 with status and refund history as they were; a refund of an
\* unknown ticket is answered 404.
C25_RefundNeedsOwner ==
    [][ Answered("refund") =>
          LET r == LastEntry IN
          /\ (r.tid \in DOMAIN tickets /\ tickets[r.tid].owner # r.user)
             => /\ r.res.code = 403
                /\ tickets'[r.tid].status = tickets[r.tid].status
                /\ tickets'[r.tid].refundHistory = tickets[r.tid].refundHistory
          /\ r.tid \notin DOMAIN tickets => r.res.code = 404 ]_vars

NewRefundEntry(t) == tickets'[t].refundHistory[Len(tickets'[t].refundHistory)]

\* C26 as claimed: the amount of a new refund entry is the ticket's price,
\* unless a force-refund supplied an amount, and then it is that amount, 0
\* included.
C26_RefundAmount ==
    [][ /\ (Answered("refund") /\ LastEntry.res.code = 200 /\ tickets' # tickets)
           => NewRefundEntry(LastEntry.tid).amount = tickets[LastEntry.tid].price
        /\ (Answered("force-refund") /\ LastEntry.res.code = 200)
           => NewRefundEntry(LastEntry.tid).amount
                = (IF LastEntry.refundAmount = NoAmount
                   THEN tickets[LastEntry.tid].price ELSE LastEntry.refundAmount) ]_vars

\* C27: an owner-route refund answered while the ticket is used changes
\* nothing and completes no refund; a used ticket gets a refund entry or the
\* status REFUNDED only in a force-refund by a super admin; a force-refund by
\* anyone else is answered 403 and changes nothing.
C27_UsedTicketRefundOnlyByAdmin ==
    [][ /\ ( /\ Answered("refund")
             /\ LastEntry.tid \in DOMAIN tickets
             /\ tickets[LastEntry.tid].isUsed )
           => /\ tickets' = tickets
              /\ Failed(LastEntry.res) \/ LastEntry.res.body.status = "deduplicated"
        /\ \A t \in DOMAIN tickets :
             ( /\ tickets[t].isUsed
               /\ \/ tickets'[t].refundHistory # tickets[t].refundHistory
                  \/ tickets'[t].status # tickets[t].status )
             => /\ Answered("force-refund")
                /\ LastEntry.tid = t /\ LastEntry.user \in SuperAdmins
        /\ (Answered("force-refund") /\ LastEntry.user \notin SuperAdmins)
           => (LastEntry.res.code = 403 /\ tickets' = tickets) ]_vars

\* C27 witness: t2 is used; its owner's refund was turned away, so was a
\* force-refund by u1, and the super admin's force-refund refunded it.
C27_Witness ==
    /\ Len(log) = 3
    /\ log[1].op = "refund" /\ log[1].tid = "t2" /\ log[1].user = "u2"
    /\ log[1].res = ErrorReply(500, "Cannot refund used ticket")
    /\ log[2].op = "force-refund" /\ log[2].tid = "t2" /\ log[2].user = "u1"
    /\ log[2].res.code = 403
    /\ log[3].op = "force-refund" /\ log[3].tid = "t2" /\ log[3].user = "u2"
    /\ log[3].res.code = 200
    /\ tickets["t2"].isUsed /\ tickets["t2"].status = "REFUNDED"

\* C28 as claimed (the refund route): a refund request without an
\* idempotency-key header gets no generated key, is answered with a 4xx error
\* and changes nothing.
C28_RefundWithoutKeyRejected ==
    [][ /\ \A s \in Slots :
             (refundReq[s].pc = "idle" /\ refundReq'[s].pc # "idle")
             => refundReq'[s].key \notin Range(GeneratedKeys)
        /\ (Answered("refund") /\ LastEntry.key \in Range(GeneratedKeys))
           => /\ LastEntry.res.code \in 400..499
              /\ tickets' = tickets ]_vars

\* C29 as claimed: a purchase that bears the key of an earlier successful
\* purchase creates no ticket and is answered as that purchase was.
C29_PurchaseKeyAppliedOnce ==
    [][ Answered("purchase") =>
          \A i \in 1..Len(log) :
            ( /\ log[i].op = "purchase" /\ log[i].key = LastEntry.key
              /\ log[i].res.code = 201
              /\ \A j \in 1..(i - 1) :
                   ~(log[j].op = "purchase" /\ log[j].key = LastEntry.key) )
            => (tickets' = tickets /\ LastEntry.res = log[i].res) ]_vars

\* C30: any two distinct tickets carry distinct scan tokens.
C30_TokensDistinct ==
    \A t, u \in DOMAIN tickets : t # u => tickets[t].qrData # tickets[u].qrData

\* C30 witness: a batch of two tickets for the same buyer and event went
\* through, a ticket was transferred, and a purchase or batch was refused by
\* the index.
C30_Witness ==
    /\ \E i \in 1..Len(log) :
         log[i].op = "batch" /\ log[i].res.code = 201 /\ log[i].res.body.count = 2
    /\ \E i \in 1..Len(log) : log[i].op = "transfer" /\ log[i].res.code = 200
    /\ \E t, u \in DOMAIN tickets :
         /\ t # u /\ tickets[t].event = tickets[u].event
         /\ tickets[t].owner = tickets[u].owner


----------------------------------------------------------------------------
(* Properties of the request pipeline: signatures, limits, transactions    *)

\* C31 as claimed: every delivery without an x-payment-signature header is
\* answered 401 with a message that names the signature, whether or not it
\* carries an idempotency-key header.
C31_NoSignatureIs401 ==
    [][ (Delivered /\ lastHook'.sig = NoSig)
        => lastHook'.res = ErrorReply(401, "Invalid webhook signature") ]_vars

\* C32 as claimed: of a client's login attempts within one window, the first
\* nine are answered by the login handler (401 for wrong credentials) and the
\* tenth is answered 429.
C32_TenthLoginLimited ==
    [][ \A c \in Clients :
          traffic'[c]["login"].n = traffic[c]["login"].n + 1 =>
            LET t == traffic'[c]["login"] IN
            /\ t.n <= 9 => t.res = ErrorReply(401, "Invalid credentials")
            /\ t.n = 10 => t.res.code = 429 ]_vars

\* C33 as claimed: of a client's requests within one window, the first hundred
\* are served (200 on the health endpoint) and the hundred-and-first is
\* answered 429.
C33_HundredFirstRequestLimited ==
    [][ \A c \in Clients :
          traffic'[c]["health"].n = traffic[c]["health"].n + 1 =>
            LET res == traffic'[c]["health"].res
                sent == traffic'[c]["login"].n + traffic'[c]["health"].n IN
            /\ sent <= 100 => res.code = 200
            /\ sent = 101 => res.code = 429 ]_vars

Count(tr, call) == Cardinality({i \in 1..Len(tr) : tr[i] = call})

\* The session was started, then committed or aborted exactly once, then
\* ended, and no abort follows a commit.
ResolvedOnce(tr) ==
    /\ tr[1] = "startTransaction" /\ tr[Len(tr)] = "endSession"
    /\ Count(tr, "commitTransaction") + Count(tr, "abortTransaction") = 1
    /\ \A i, j \in 1..Len(tr) :
         (i < j /\ tr[i] = "commitTransaction") => tr[j] # "abortTransaction"

\* C34 as claimed: every execution of a handler that opens a transaction
\* (webhook, batch purchase, transfer, force-refund) commits or aborts it
\* exactly once before it ends the session.
C34_TransactionResolvedOnce ==
    [][ /\ Delivered => ResolvedOnce(lastHook'.session)
        /\ ( /\ Len(log') = Len(log) + 1
             /\ log'[Len(log')].op \in {"batch", "transfer", "force-refund"}
             /\ log'[Len(log')].session # NoSession )
           => ResolvedOnce(log'[Len(log')].session) ]_vars

ListsStamped(h) ==
    \E t \in Range(h.body.ticketIds) \cap DOMAIN tickets : tickets[t].transactionId # NoTxn

\* C36 as claimed: a success delivery that passes the gates and lists a ticket
\* that carries a transaction id is answered 409 and changes nothing.
C36_StampedTicketIs409 ==
    [][ Delivered =>
          LET h == lastHook' IN
          (PassesGates(h) /\ h.body.status = "success" /\ ListsStamped(h))
            => (h.res.code = 409 /\ StoreUnchanged) ]_vars

\* C36: a success delivery that passes the gates and lists a ticket that
\* carries a transaction id, stamped by a success or by a failed delivery, is
\* rejected and changes nothing: with 404 when a listed ticket is not stored
\* (or is listed twice), with 409 otherwise.  A payment-failed ticket is never
\* changed by a success delivery.
C36_StampedTicketRejected ==
    [][ Delivered =>
          LET h == lastHook' IN
          (PassesGates(h) /\ h.body.status = "success") =>
            /\ ListsStamped(h) =>
                 /\ StoreUnchanged
                 /\ h.res.code =
                      IF AllStored(tickets, h.body.ticketIds) /\ NoRepeats(h.body.ticketIds)
                      THEN 409 ELSE 404
            /\ \A t \in DOMAIN tickets :
                 tickets[t].paymentStatus = "failed" => tickets'[t] = tickets[t] ]_vars

\* C36 witness: a success delivery for a ticket that an earlier failed
\* delivery stamped was answered 409, and the ticket is still payment-failed.
C36_Witness ==
    /\ HasDelivery
    /\ lastHook.body.status = "success" /\ lastHook.res.code = 409
    /\ \E t \in Range(lastHook.body.ticketIds) \cap DOMAIN tickets :
         /\ tickets[t].paymentStatus = "failed"
         /\ tickets[t].transactionId # NoTxn
         /\ tickets[t].transactionId # lastHook.body.transactionId

\* C39: a delivery that passes the key, signature and field gates with a status
\* other than 'success' and 'failed' changes no ticket, counter or payment
\* record and is answered 200 with acknowledged = true.
C39_UnknownStatusAcknowledged ==
    [][ Delivered =>
          LET h == lastHook' IN
          (PassesGates(h) /\ h.body.status \notin {"success", "failed"}) =>
            /\ StoreUnchanged
            /\ h.ops = <<>>
            /\ h.res.code = 200 /\ h.res.body.acknowledged
            /\ h.res.body.transactionId = h.body.transactionId ]_vars

\* C39 witness: a 'pending' delivery for two stored tickets, one of them paid
\* before, was acknowledged.
C39_Witness ==
    /\ HasDelivery
    /\ PassesGates(lastHook) /\ lastHook.body.status = "pending"
    /\ lastHook.body.ticketIds = <<"t1", "t2">>
    /\ lastHook.res.code = 200
    /\ tickets["t1"].paymentStatus = "confirmed"
    /\ tickets["t2"].transactionId = NoTxn

----------------------------------------------------------------------------
(* Properties of the transfer history, of God Mode and of request tracing  *)

\* The history starts with the buyer's self-entry, each later entry starts
\* where the one before it ended, and the last entry ends at the owner.
IsChain(doc) ==
    LET h == doc.transferHistory IN
    /\ Len(h) >= 1
    /\ h[1].from = h[1].to
    /\ \A i \in 2..Len(h) : h[i].from = h[i - 1].to
    /\ h[Len(h)].to = doc.owner

C38_GodModeOnlyForCurrentSuperAdmin ==
    [][ ( /\ Len(log') = Len(log) + 1
          /\ log'[Len(log')].op \in {"role", "nuke"}
          /\ log'[Len(log')].isGodMode )
        => LET id == log'[Len(log')].token.id IN
           id \in DOMAIN users /\ users[id].role = "super_admin" ]_vars

\* The requests whose response has neither finished nor closed.
Open == {r \in DOMAIN inFlight : inFlight[r].phase = "open"}

\* C40 as claimed: activeRequests holds exactly the ids of the requests in
\* flight (so it is empty when none is), every request that entered the
\* middleware has a logger, and a request whose response is over has logged
\* its completion once, one in flight not yet.
C40_ActiveRequestsTracksInFlight ==
    /\ activeRequests = {inFlight[r].id : r \in Open}
    /\ \A r \in DOMAIN inFlight :
         /\ inFlight[r].logger
         /\ inFlight[r].completed = IF r \in Open THEN 0 ELSE 1

============================================================================
